---- MODULE Spec2Model ----
(***************************************************************************)
(* AtlasBuilder of src/src/texture.rs: a growable RGBA raster into which   *)
(* tiles are packed along a growing-square spiral, a name -> origin cache  *)
(* and a rectangle -> minimum-alpha cache; ColorMap of the same file and    *)
(* FaceIterator of src/src/cube.rs.                                        *)
(*                                                                         *)
(* A pixel is the 4-tuple <<r, g, b, a>>.  The tile files of the model     *)
(* carry the tile's name in r and the pixel's column and row in g and b,   *)
(* so that a moved, transposed or overwritten pixel is visible.            *)
(***************************************************************************)
EXTENDS Integers, Sequences, FiniteSets, TLC

\* Number of well-formed tile files in the directory (names 1..MaxFiles).
MaxFiles == 257

\* Number of these files a caller of Spec loads (names 1..MaxNames).
MaxNames == 17

\* The first tile a caller loads is one of the names 1..FirstNames.
FirstNames == 3

\* ImageBuffer::new(unit_width * 4, unit_height * 4)
InitTiles == 4

\* ColorMap::get is called with x and y in
\* {-GridPad / GridDen, ..., (GridDen + GridPad) / GridDen}.  With GridDen a
\* power of two up to 64 every f32 operation of get is exact on these inputs.
GridDen == 16
GridPad == 2

\* The side of a color map
ColorMapSize == 256

\* Unit sizes (unit_width, unit_height) the builder is constructed with.
UnitSizes == {<<2, 1>>, <<1, 2>>}

\* Tile names.  1..MaxFiles name well-formed tile files; 0 names no file,
\* -1 a file that is one pixel too wide and -2 a file that is one row too
\* high.
\* The iterator values a caller holds, and the calls of next() on one of them
\* that are followed.
NumIterators == 2
MaxCalls == 9
Iterators == 1..NumIterators

GoodNames == 1..MaxFiles
BadNames == (-2)..0
Names == GoodNames \cup BadNames

VARIABLES
    unit_width, unit_height,  \* size of an individual tile
    image,                    \* the raster: [width, height, px]
    completed_tiles_size,     \* size of the entirely occupied square
    position,                 \* position in the current strip
    tile_positions,           \* name -> pixel origin
    min_alpha_cache,          \* <<x, y, w, h>> -> alpha
    op,                       \* the path the last call took
    arg,                      \* the argument of the last call
    ret,                      \* what the last call returned
    decoded,                  \* the last call invoked load_rgba8
    scanned,                  \* the last call scanned the raster
    placements,               \* number of load calls that placed a tile
    first_origin,             \* name -> origin returned by its first load
    first_alpha,              \* rect -> value returned by its first query
    first_inside,             \* rects that lay in the raster at that query
    color_map,                \* what ColorMap::from_path returned
    face_iter,                \* FaceIterator(usize), one per iterator value
    yielded                   \* what next() returned since new(), in order

builder == <<image, completed_tiles_size, position, tile_positions,
             min_alpha_cache>>
cursor == <<completed_tiles_size, position>>
vars == <<unit_width, unit_height, image, completed_tiles_size, position,
          tile_positions, min_alpha_cache, op, arg, ret, decoded, scanned,
          placements, first_origin, first_alpha, first_inside,
          color_map, face_iter, yielded>>
lib == <<color_map, face_iter, yielded>>
history == <<placements, first_origin, first_alpha, first_inside>>

----------------------------------------------------------------------------
(* Rasters *)

ZeroPixel == <<0, 0, 0, 0>>

Cells(w, h) == (0..(w - 1)) \X (0..(h - 1))

\* ImageBuffer::new(w, h): a zero-filled raster
NewImage(w, h) == [width |-> w, height |-> h,
                   px |-> [c \in Cells(w, h) |-> ZeroPixel]]

dimensions(img) == <<img.width, img.height>>

InImage(img, x, y) == x >= 0 /\ x < img.width /\ y >= 0 /\ y < img.height

Min(S) == CHOOSE m \in S : \A n \in S : m <= n

----------------------------------------------------------------------------
(* The tile directory: what load_rgba8 returns for base_path/name.png *)

\* Number of unit_height frames stacked in the file of a well-formed tile.
Frames(name) == IF name % 5 = 0 THEN 2 ELSE 1

TileAlpha(name, ix, iy, uh) ==
    IF iy >= uh THEN 128
    ELSE CASE name % 3 = 1 -> 255
           [] name % 3 = 2 -> 0
           [] OTHER -> IF ix = 0 /\ iy = 0 THEN 128 ELSE 255

TileImage(name, w, h, uh) ==
    [width |-> w, height |-> h,
     px |-> [c \in Cells(w, h) |->
                <<name, c[1] + 1, c[2] + 1, TileAlpha(name, c[1], c[2], uh)>>]]

\* load_rgba8(path): [ok |-> FALSE] is an Err, otherwise the decoded image.
load_rgba8(name, uw, uh) ==
    CASE name \in GoodNames ->
            [ok |-> TRUE, img |-> TileImage(name, uw, uh * Frames(name), uh)]
      [] name = -1 ->
            [ok |-> TRUE, img |-> TileImage(name, uw + 1, uh, uh)]
      [] name = -2 /\ uh > 1 ->
            [ok |-> TRUE, img |-> TileImage(name, uw, uh + 1, uh)]
      [] OTHER -> [ok |-> FALSE]

----------------------------------------------------------------------------
(* AtlasBuilder::new *)

Init ==
    /\ \E u \in UnitSizes : unit_width = u[1] /\ unit_height = u[2]
    /\ image = NewImage(unit_width * InitTiles, unit_height * InitTiles)
    /\ completed_tiles_size = 0
    /\ position = 0
    /\ tile_positions = << >>
    /\ min_alpha_cache = << >>
    /\ op = "new"
    /\ arg = << >>
    /\ ret = << >>
    /\ decoded = FALSE
    /\ scanned = FALSE
    /\ placements = 0
    /\ first_origin = << >>
    /\ first_alpha = << >>
    /\ first_inside = {}
    /\ color_map = <<"none">>
    /\ face_iter = [i \in Iterators |-> 0]
    /\ yielded = [i \in Iterators |-> << >>]

----------------------------------------------------------------------------
(* AtlasBuilder::load *)

\* HashMap insert through a vacant entry; an occupied entry is kept.
EntryOrInsert(map, key, val) ==
    IF key \in DOMAIN map THEN map
    ELSE [k \in DOMAIN map \cup {key} |-> IF k = key THEN val ELSE map[k]]

\* Variant: the raster grows one ring too late (> for >=).
NeedsGrowth_late(pos, size, uw, uh, w, h) ==
    pos = 0 /\ (uw * size > w \/ uh * size > h)

\* Variant: the raster grows one ring too early.
NeedsGrowth_early(pos, size, uw, uh, w, h) ==
    pos = 0 /\ (uw * (size + 1) >= w \/ uh * (size + 1) >= h)

\* "Expand the image buffer if necessary": the condition
NeedsGrowth(pos, size, uw, uh, w, h) ==
    pos = 0 /\ (uw * size >= w \/ uh * size >= h)

\* Variant: the new raster replaces the old one without the copy.
Grow_nocopy(old) == NewImage(old.width * 2, old.height * 2)

\* Variant: only the width is doubled.
Grow_widthonly(old) ==
    [width |-> old.width * 2, height |-> old.height,
     px |-> [c \in Cells(old.width * 2, old.height) |->
                IF c[1] < old.width THEN old.px[c] ELSE ZeroPixel]]

\* ... and the copy of the old raster into one of twice the size
Grow(old) ==
    [width |-> old.width * 2, height |-> old.height * 2,
     px |-> [c \in Cells(old.width * 2, old.height * 2) |->
                IF c[1] < old.width /\ c[2] < old.height
                THEN old.px[c] ELSE ZeroPixel]]

\* Variant: the right edge is filled with the coordinates transposed.
GridCell_transposed(pos, size) ==
    IF pos < size THEN <<pos, size>> ELSE <<pos - size, size>>

\* Variant: the top edge takes one slot too many (<= for <).
GridCell_offbyone(pos, size) ==
    IF pos <= size THEN <<pos, size>> ELSE <<size, pos - size>>

\* Variant: the right edge is filled from the corner upwards.
GridCell_reversed(pos, size) ==
    IF pos < size THEN <<pos, size>> ELSE <<size, 2 * size - pos>>

\* The grid cell of the next tile
GridCell(pos, size) ==
    IF pos < size THEN <<pos, size>> ELSE <<size, pos - size>>

\* Variant: a ring is complete after 2 * size placements.
Advance_short(pos, size) ==
    IF pos + 1 >= size * 2 THEN <<size + 1, 0>> ELSE <<size, pos + 1>>

\* Variant: a ring is complete after 2 * size + 2 placements (> for >=).
Advance_long(pos, size) ==
    IF pos + 1 > size * 2 + 1 THEN <<size + 1, 0>> ELSE <<size, pos + 1>>

\* The cursor after a placement
Advance(pos, size) ==
    IF pos + 1 >= size * 2 + 1 THEN <<size + 1, 0>> ELSE <<size, pos + 1>>

\* The pixels of the blit loop, in the order the loop writes them
BlitOrder(ix, iy, h) == ix * h + iy

\* The blit writes get_pixel_mut(ix + x, iy + y) for ix in 0..w, iy in 0..h
\* and panics at the first pixel outside the raster.
BlitInBounds(dst, x, y, w, h) ==
    \A ix \in 0..(w - 1), iy \in 0..(h - 1) : InImage(dst, ix + x, iy + y)

FirstOutside(dst, x, y, w, h) ==
    Min({BlitOrder(ix, iy, h) : <<ix, iy>> \in
            {c \in Cells(w, h) : ~InImage(dst, c[1] + x, c[2] + y)}})

\* Variant: all the rows of the tile are copied.
Blit_allrows(dst, src, x, y, w, h) ==
    LET rows == src.height
        stop == IF BlitInBounds(dst, x, y, w, rows) THEN w * rows
                ELSE FirstOutside(dst, x, y, w, rows)
    IN [dst EXCEPT !.px =
          [c \in DOMAIN dst.px |->
              IF /\ c[1] >= x /\ c[1] < x + w
                 /\ c[2] >= y /\ c[2] < y + rows
                 /\ BlitOrder(c[1] - x, c[2] - y, rows) < stop
              THEN src.px[<<c[1] - x, c[2] - y>>]
              ELSE dst.px[c]]]

Blit(dst, src, x, y, w, h) ==
    LET stop == IF BlitInBounds(dst, x, y, w, h) THEN w * h
                ELSE FirstOutside(dst, x, y, w, h)
    IN [dst EXCEPT !.px =
          [c \in DOMAIN dst.px |->
              IF /\ c[1] >= x /\ c[1] < x + w
                 /\ c[2] >= y /\ c[2] < y + h
                 /\ BlitOrder(c[1] - x, c[2] - y, h) < stop
              THEN src.px[<<c[1] - x, c[2] - y>>]
              ELSE dst.px[c]]]

\* Variant: the raster is expanded before the cache is consulted.
LoadHit_grows(name) ==
    /\ name \in DOMAIN tile_positions
    /\ image' = IF NeedsGrowth(position, completed_tiles_size, unit_width,
                               unit_height, image.width, image.height)
                THEN Grow(image) ELSE image
    /\ op' = "load_hit"
    /\ arg' = <<name>>
    /\ ret' = tile_positions[name]
    /\ decoded' = FALSE
    /\ scanned' = FALSE
    /\ UNCHANGED <<lib, unit_width, unit_height, cursor, tile_positions,
                   min_alpha_cache, history>>

\* Cache hit: the stored origin, nothing else
LoadHit(name) ==
    /\ name \in DOMAIN tile_positions
    /\ op' = "load_hit"
    /\ arg' = <<name>>
    /\ ret' = tile_positions[name]
    /\ decoded' = FALSE
    /\ scanned' = FALSE
    /\ UNCHANGED <<lib, unit_width, unit_height, builder, history>>

\* Variant: the assertion on the height is missing.
LoadOk_noheight(r, uw, uh) ==
    /\ r.ok
    /\ r.img.width = uw

\* The unwrap and the two assertions
LoadOk(r, uw, uh) ==
    /\ r.ok
    /\ r.img.width = uw
    /\ r.img.height % uh = 0

LoadFail(name) ==
    /\ name \notin DOMAIN tile_positions
    /\ ~LoadOk(load_rgba8(name, unit_width, unit_height),
               unit_width, unit_height)
    /\ op' = "load_panic"
    /\ arg' = <<name>>
    /\ ret' = << >>
    /\ decoded' = TRUE
    /\ scanned' = FALSE
    /\ UNCHANGED <<lib, unit_width, unit_height, builder, history>>

LoadMiss(name) ==
    /\ name \notin DOMAIN tile_positions
    /\ LoadOk(load_rgba8(name, unit_width, unit_height),
              unit_width, unit_height)
    /\ LET img == load_rgba8(name, unit_width, unit_height).img
           uw == unit_width
           uh == unit_height
           w == image.width
           h == image.height
           size == completed_tiles_size
           grown == IF NeedsGrowth(position, size, uw, uh, w, h)
                    THEN Grow(image) ELSE image
           cell == GridCell(position, size)
           next == Advance(position, size)
           x == cell[1] * uw
           y == cell[2] * uh
       IN /\ completed_tiles_size' = next[1]
          /\ position' = next[2]
          /\ image' = Blit(grown, img, x, y, uw, uh)
          /\ IF BlitInBounds(grown, x, y, uw, uh)
             THEN /\ tile_positions' =
                        EntryOrInsert(tile_positions, name, <<x, y>>)
                  /\ op' = "load_miss"
                  /\ ret' = tile_positions'[name]
                  /\ placements' = placements + 1
                  /\ first_origin' =
                        EntryOrInsert(first_origin, name, ret')
             ELSE /\ op' = "load_blit_panic"
                  /\ ret' = << >>
                  /\ UNCHANGED <<tile_positions, placements, first_origin>>
    /\ arg' = <<name>>
    /\ decoded' = TRUE
    /\ scanned' = FALSE
    /\ UNCHANGED <<lib, unit_width, unit_height, min_alpha_cache, first_alpha,
                   first_inside>>

----------------------------------------------------------------------------
(* AtlasBuilder::min_alpha *)

RectInImage(img, rect) ==
    rect[1] + rect[3] <= img.width /\ rect[2] + rect[4] <= img.height

\* The pixels SubImage::pixels() visits
RectCells(rect) ==
    {c \in (rect[1]..(rect[1] + rect[3] - 1)) \X
           (rect[2]..(rect[2] + rect[4] - 1)) : TRUE}

\* Variant: an empty rectangle counts as opaque (unwrap_or(255)).
MinOrOpaque(S) == IF S = {} THEN 255 ELSE Min(S)

\* map(|(_, _, p)| p[3]).min().unwrap_or(0)
MinOrZero(S) == IF S = {} THEN 0 ELSE Min(S)

\* Variant: the greatest alpha byte is taken (max() for min()).
ScanMinAlpha_max(img, rect) ==
    LET alphas == {img.px[c][4] : c \in RectCells(rect)}
    IN IF alphas = {} THEN 0
       ELSE CHOOSE m \in alphas : \A a \in alphas : a <= m

\* Variant: the blue channel is read for the alpha channel.
ScanMinAlpha_blue(img, rect) ==
    MinOrZero({img.px[c][3] : c \in RectCells(rect)})

ScanMinAlpha(img, rect) ==
    MinOrZero({img.px[c][4] : c \in RectCells(rect)})

\* A raster read that checks only the end of the buffer: the pixel at the
\* linear index y * width + x.
LinearIndex(img, c) == c[2] * img.width + c[1]
LinearReadable(img, rect) ==
    \A c \in RectCells(rect) : LinearIndex(img, c) < img.width * img.height
LinearPixel(img, c) ==
    img.px[<<LinearIndex(img, c) % img.width,
             LinearIndex(img, c) \div img.width>>]

\* Variant: the memoized value is ignored and the raster scanned again.
MinAlphaHit_rescan(rect) ==
    /\ rect \in DOMAIN min_alpha_cache
    /\ RectInImage(image, rect)
    /\ op' = "min_alpha_hit"
    /\ arg' = rect
    /\ ret' = <<ScanMinAlpha(image, rect)>>
    /\ min_alpha_cache' = [min_alpha_cache EXCEPT ![rect] = ret'[1]]
    /\ decoded' = FALSE
    /\ scanned' = TRUE
    /\ UNCHANGED <<lib, unit_width, unit_height, image, cursor, tile_positions,
                   history>>

MinAlphaHit(rect) ==
    /\ rect \in DOMAIN min_alpha_cache
    /\ op' = "min_alpha_hit"
    /\ arg' = rect
    /\ ret' = <<min_alpha_cache[rect]>>
    /\ decoded' = FALSE
    /\ scanned' = FALSE
    /\ UNCHANGED <<lib, unit_width, unit_height, builder, history>>

\* Variant: the new entry replaces the alpha cache.
MinAlphaMiss_evicts(rect) ==
    /\ rect \notin DOMAIN min_alpha_cache
    /\ RectInImage(image, rect)
    /\ LET min_alpha == ScanMinAlpha(image, rect)
       IN /\ min_alpha_cache' = [r \in {rect} |-> min_alpha]
          /\ ret' = <<min_alpha>>
          /\ first_alpha' = EntryOrInsert(first_alpha, rect, min_alpha)
    /\ first_inside' = first_inside \cup {rect}
    /\ op' = "min_alpha_miss"
    /\ arg' = rect
    /\ decoded' = FALSE
    /\ scanned' = TRUE
    /\ UNCHANGED <<lib, unit_width, unit_height, image, cursor, tile_positions,
                   placements, first_origin>>

MinAlphaMiss(rect) ==
    /\ rect \notin DOMAIN min_alpha_cache
    /\ RectInImage(image, rect)
    /\ LET min_alpha == ScanMinAlpha(image, rect)
       IN /\ min_alpha_cache' =
                [r \in DOMAIN min_alpha_cache \cup {rect} |->
                    IF r = rect THEN min_alpha ELSE min_alpha_cache[r]]
          /\ ret' = <<min_alpha>>
          /\ first_alpha' = EntryOrInsert(first_alpha, rect, min_alpha)
    /\ first_inside' = first_inside \cup {rect}
    /\ op' = "min_alpha_miss"
    /\ arg' = rect
    /\ decoded' = FALSE
    /\ scanned' = TRUE
    /\ UNCHANGED <<lib, unit_width, unit_height, image, cursor, tile_positions,
                   placements, first_origin>>

\* A rectangle that leaves the raster.  The pixel read either panics
\* (bounds-checked get_pixel) or reads the buffer at the linear index
\* (get_pixel that only slices the buffer), depending on the image library
\* the crate is built against.
MinAlphaOutside(rect) ==
    /\ rect \notin DOMAIN min_alpha_cache
    /\ ~RectInImage(image, rect)
    /\ arg' = rect
    /\ decoded' = FALSE
    /\ scanned' = TRUE
    /\ \/ /\ op' = "min_alpha_panic"
          /\ ret' = << >>
          /\ UNCHANGED <<min_alpha_cache, first_alpha>>
       \/ /\ LinearReadable(image, rect)
          /\ LET min_alpha ==
                   MinOrZero({LinearPixel(image, c)[4] : c \in RectCells(rect)})
             IN /\ min_alpha_cache' =
                      [r \in DOMAIN min_alpha_cache \cup {rect} |->
                          IF r = rect THEN min_alpha ELSE min_alpha_cache[r]]
                /\ ret' = <<min_alpha>>
                /\ first_alpha' = EntryOrInsert(first_alpha, rect, min_alpha)
          /\ op' = "min_alpha_outside"
    /\ UNCHANGED <<lib, unit_width, unit_height, image, cursor, tile_positions,
                   placements, first_origin, first_inside>>

----------------------------------------------------------------------------
(* AtlasBuilder::get_size *)

GetSize ==
    /\ op' = "get_size"
    /\ arg' = << >>
    /\ ret' = dimensions(image)
    /\ decoded' = FALSE
    /\ scanned' = FALSE
    /\ UNCHANGED <<lib, unit_width, unit_height, builder, history>>

----------------------------------------------------------------------------
(* The callers *)

\* The rectangles a caller queries: the first tile, an empty rectangle (of
\* no rows for the 2 x 1 tiles, of no columns for the 1 x 2 tiles), and two
\* tiles of the first row of which the second lies beyond the initial
\* raster.
Rects ==
    {<<0, 0, unit_width, unit_height>>,
     <<0, 0, unit_width - 1, unit_height - 1>>,
     <<(InitTiles - 1) * unit_width, 0, 2 * unit_width, unit_height>>}

\* The names a caller passes: any cached name, any unloadable name, and as
\* a new tile one of the names 1..FirstNames at first and the smallest
\* unloaded name afterwards.
Offered ==
    LET fresh == (1..MaxNames) \ DOMAIN tile_positions
    IN DOMAIN tile_positions \cup BadNames \cup
         (IF tile_positions = << >> THEN fresh \cap (1..FirstNames)
          ELSE IF fresh = {} THEN {} ELSE {Min(fresh)})

Next ==
    \/ \E name \in Offered : LoadHit(name)
    \/ \E name \in Offered : LoadFail(name)
    \/ \E name \in Offered : LoadMiss(name)
    \/ \E rect \in Rects : MinAlphaHit(rect)
    \/ \E rect \in Rects : MinAlphaMiss(rect)
    \/ \E rect \in Rects : MinAlphaOutside(rect)
    \/ GetSize

Spec == Init /\ [][Next]_vars

\* A caller that loads all the files of the directory in the order of their
\* names, and between two of them loads the first name again, loads a name
\* without a file, queries the first tile and asks for the size.
OfferedLong ==
    LET fresh == GoodNames \ DOMAIN tile_positions
    IN {0, 1} \cup (IF fresh = {} THEN {} ELSE {Min(fresh)})

RectsLong == {<<0, 0, unit_width, unit_height>>}

NextLong ==
    \/ \E name \in OfferedLong : LoadHit(name)
    \/ \E name \in OfferedLong : LoadFail(name)
    \/ \E name \in OfferedLong : LoadMiss(name)
    \/ \E rect \in RectsLong : MinAlphaHit(rect)
    \/ \E rect \in RectsLong : MinAlphaMiss(rect)
    \/ GetSize

SpecLong == Init /\ [][NextLong]_vars

----------------------------------------------------------------------------
(* ColorMap *)

\* The files from_path is called with: <<decodable, width, height>>
ColorMapFiles ==
    {<<d, w, h>> : d \in BOOLEAN,
                   w \in (ColorMapSize - 1)..(ColorMapSize + 1),
                   h \in (ColorMapSize - 1)..(ColorMapSize + 1)}

\* Variant: only the width is matched against 256.
from_path_widthonly(f) ==
    IF ~f[1] THEN <<"Img">>
    ELSE IF f[2] = ColorMapSize THEN <<"Ok">>
    ELSE <<"Size", f[2], f[3]>>

\* ColorMap::from_path: Ok(ColorMap(img)), Err(Img(e)) or Err(Size(w, h, _))
from_path(f) ==
    IF ~f[1] THEN <<"Img">>
    ELSE IF <<f[2], f[3]>> = <<ColorMapSize, ColorMapSize>> THEN <<"Ok">>
    ELSE <<"Size", f[2], f[3]>>

\* The pixel of the color map at (x, y): a raster that carries the
\* coordinates in the red and green channels.
ColorMapPixel(x, y) == <<x, y, (x + y) % ColorMapSize, 255>>

\* Variant: the upper clamp is missing.
Clamp_noupper(v) == IF v < 0 THEN 0 ELSE v

\* v.max(0.0).min(1.0), for v / GridDen
Clamp(v) == IF v < 0 THEN 0 ELSE IF v > GridDen THEN GridDen ELSE v

\* (num / den) as u8: truncated and saturated
AsU8(num, den) ==
    IF num < 0 THEN 0
    ELSE IF num \div den > 255 THEN 255 ELSE num \div den

\* ColorMap::get(a / GridDen, b / GridDen)
get(a, b) ==
    LET x == Clamp(a)
        y == Clamp(b)
        xy == x * y
        px == AsU8((GridDen - x) * 255, GridDen)
        py == AsU8((GridDen * GridDen - xy) * 255, GridDen * GridDen)
        col == ColorMapPixel(px, py)
    IN <<col[1], col[2], col[3]>>

FromPath(f) ==
    /\ color_map' = from_path(f)
    /\ op' = "from_path"
    /\ arg' = <<f>>
    /\ ret' = color_map'
    /\ decoded' = TRUE
    /\ scanned' = FALSE
    /\ UNCHANGED <<unit_width, unit_height, builder, history, face_iter,
                   yielded>>

Get(a, b) ==
    /\ color_map = <<"Ok">>
    /\ op' = "get"
    /\ arg' = <<a, b>>
    /\ ret' = get(a, b)
    /\ decoded' = FALSE
    /\ scanned' = FALSE
    /\ UNCHANGED <<lib, unit_width, unit_height, builder, history>>

GridInputs == (-GridPad)..(GridDen + GridPad)

NextColorMap ==
    \/ \E f \in ColorMapFiles : FromPath(f)
    \/ \E a \in GridInputs, b \in GridInputs : Get(a, b)

SpecColorMap == Init /\ [][NextColorMap]_vars

----------------------------------------------------------------------------
(* cube::Face and cube::FaceIterator *)

\* Face::from_usize
from_usize(number) ==
    CASE number = 0 -> "Down"
      [] number = 1 -> "Up"
      [] number = 2 -> "North"
      [] number = 3 -> "South"
      [] number = 4 -> "West"
      [] number = 5 -> "East"
      [] OTHER -> "None"

\* FaceIterator::new
FaceNew(i) ==
    /\ face_iter' = [face_iter EXCEPT ![i] = 0]
    /\ yielded' = [yielded EXCEPT ![i] = << >>]
    /\ op' = "face_new"
    /\ arg' = <<i>>
    /\ ret' = << >>
    /\ UNCHANGED <<unit_width, unit_height, builder, history, color_map,
                   decoded, scanned>>

\* Variant: the counter is compared with <= 6.
FaceNext_inclusive(i) ==
    /\ Len(yielded[i]) < MaxCalls
    /\ LET face == face_iter[i]
       IN IF face <= 6
          THEN /\ face_iter' = [face_iter EXCEPT ![i] = face + 1]
               /\ ret' = <<from_usize(face)>>
          ELSE /\ face_iter' = face_iter
               /\ ret' = <<"None">>
    /\ yielded' = [yielded EXCEPT ![i] = Append(@, ret'[1])]
    /\ op' = "face_next"
    /\ arg' = <<i>>
    /\ UNCHANGED <<unit_width, unit_height, builder, history, color_map,
                   decoded, scanned>>

\* <FaceIterator as Iterator>::next
FaceNext(i) ==
    /\ Len(yielded[i]) < MaxCalls
    /\ LET face == face_iter[i]
       IN IF face < 6
          THEN /\ face_iter' = [face_iter EXCEPT ![i] = face + 1]
               /\ ret' = <<from_usize(face)>>
          ELSE /\ face_iter' = face_iter
               /\ ret' = <<"None">>
    /\ yielded' = [yielded EXCEPT ![i] = Append(@, ret'[1])]
    /\ op' = "face_next"
    /\ arg' = <<i>>
    /\ UNCHANGED <<unit_width, unit_height, builder, history, color_map,
                   decoded, scanned>>

\* #[derive(Copy, Clone)]: iterator j becomes a copy of iterator i.
FaceCopy(i, j) ==
    /\ i # j
    /\ face_iter' = [face_iter EXCEPT ![j] = face_iter[i]]
    /\ yielded' = [yielded EXCEPT ![j] = yielded[i]]
    /\ op' = "face_copy"
    /\ arg' = <<i, j>>
    /\ ret' = << >>
    /\ UNCHANGED <<unit_width, unit_height, builder, history, color_map,
                   decoded, scanned>>

NextCube ==
    \/ \E i \in Iterators : FaceNew(i)
    \/ \E i \in Iterators : FaceNext(i)
    \/ \E i \in Iterators, j \in Iterators : FaceCopy(i, j)

SpecCube == Init /\ [][NextCube]_vars

----------------------------------------------------------------------------
(* Properties *)

LoadOps == {"load_hit", "load_miss", "load_panic", "load_blit_panic"}
MinAlphaOps == {"min_alpha_hit", "min_alpha_miss", "min_alpha_outside",
                "min_alpha_panic"}

\* Two unit_width x unit_height rectangles at origins a and b are disjoint.
Disjoint(a, b) ==
    \/ a[1] + unit_width <= b[1]
    \/ b[1] + unit_width <= a[1]
    \/ a[2] + unit_height <= b[2]
    \/ b[2] + unit_height <= a[2]

\* C1: the origins returned for two distinct names never give overlapping
\* unit_width x unit_height rectangles.
C1_NoOverlap ==
    \A n \in DOMAIN first_origin, m \in DOMAIN first_origin :
        n # m => Disjoint(first_origin[n], first_origin[m])

C1_Witness ==
    /\ Cardinality(DOMAIN first_origin) >= 10
    /\ op = "load_miss"

\* C2: a load of a name that was loaded before returns the origin of the
\* first call, decodes nothing and leaves raster, cursor and both caches
\* as they were.
C2_CacheHit ==
    [][(op' \in LoadOps /\ arg'[1] \in DOMAIN first_origin) =>
          /\ ret' = first_origin[arg'[1]]
          /\ decoded' = FALSE
          /\ UNCHANGED builder]_vars

\* A cache hit with the cursor at position 0 and the growth condition true,
\* after a query of the alpha cache.
C2_Witness ==
    /\ op = "load_hit"
    /\ NeedsGrowth(position, completed_tiles_size, unit_width, unit_height,
                   image.width, image.height)
    /\ DOMAIN min_alpha_cache # {}

\* C3: the raster holds, at the cached origin of every name, the first
\* unit_height rows of the tile decoded for that name.
C3_PlacedTilesIntact ==
    \A n \in DOMAIN tile_positions :
        \A c \in Cells(unit_width, unit_height) :
            LET x == tile_positions[n][1] + c[1]
                y == tile_positions[n][2] + c[2]
            IN /\ InImage(image, x, y)
               /\ image.px[<<x, y>>] =
                     load_rgba8(n, unit_width, unit_height).img.px[c]

\* The raster has grown and a tile was placed outside the old raster.
C3_Witness ==
    /\ image.width = 2 * InitTiles * unit_width
    /\ op = "load_miss"
    /\ ret[2] >= InitTiles * unit_height
    /\ Cardinality(DOMAIN tile_positions) > InitTiles * InitTiles

\* C4: no load writes a pixel outside the raster: the blit rectangle of
\* every placement lies inside the raster it is written to.
C4_BlitInBounds ==
    /\ op # "load_blit_panic"
    /\ op = "load_miss" =>
          /\ ret[1] + unit_width <= image.width
          /\ ret[2] + unit_height <= image.height

\* The first tile of ring 4: its rectangle lies below the initial raster.
C4_Witness ==
    /\ op = "load_miss"
    /\ ret = <<0, InitTiles * unit_height>>

\* C5: completed_tiles_size is the integer square root of the number of
\* placements.
C5_RingIsSqrt ==
    /\ completed_tiles_size * completed_tiles_size <= placements
    /\ placements < (completed_tiles_size + 1) * (completed_tiles_size + 1)

C5_Witness ==
    /\ placements = 4
    /\ completed_tiles_size = 2
    /\ op = "load_miss"

\* The raster is 2^k times the initial raster, with one k for both axes.
PowerOfTwoMultiple ==
    \E k \in 0..placements :
        /\ image.width = (2 ^ k) * InitTiles * unit_width
        /\ image.height = (2 ^ k) * InitTiles * unit_height

\* C6 as stated: both dimensions of the raster are at least
\* unit_width * completed_tiles_size, and the raster is a power-of-two
\* multiple of the initial raster.
C6_Original ==
    /\ image.width >= unit_width * completed_tiles_size
    /\ image.height >= unit_width * completed_tiles_size
    /\ PowerOfTwoMultiple

\* C6: the width of the raster is at least unit_width *
\* completed_tiles_size, its height at least unit_height *
\* completed_tiles_size, and the raster is a power-of-two multiple of the
\* initial raster.
C6_Amended ==
    /\ image.width >= unit_width * completed_tiles_size
    /\ image.height >= unit_height * completed_tiles_size
    /\ PowerOfTwoMultiple

\* A raster of tiles that are wider than high, doubled once by the load
\* that completed_tiles_size = InitTiles forced to grow it.
C6_Witness ==
    /\ op = "load_miss"
    /\ unit_width > unit_height
    /\ completed_tiles_size = InitTiles
    /\ image.width = 2 * InitTiles * unit_width
    /\ image.height = 2 * InitTiles * unit_height

\* The alpha bytes of the raster in a rectangle
RectAlphas(rect) == {image.px[c][4] : c \in RectCells(rect)}

AllOpaque(rect) == RectAlphas(rect) = {255}
SomeTransparent(rect) == 0 \in RectAlphas(rect)

\* C7 as stated: whenever min_alpha returns for a rectangle inside the
\* raster, it returns 255 if all pixels of the rectangle are opaque and 0 if
\* one of them is transparent.
C7_Original ==
    (op \in {"min_alpha_hit", "min_alpha_miss"} /\ RectInImage(image, arg)) =>
        /\ AllOpaque(arg) => ret = <<255>>
        /\ SomeTransparent(arg) => ret = <<0>>

\* C7: the first query of a rectangle inside the raster returns 255 if all
\* its pixels are opaque and 0 if one of them is transparent; a repeated
\* query of a rectangle that was inside the raster at its first query
\* returns 0 if one of its pixels is transparent.
C7_Amended ==
    /\ op = "min_alpha_miss" =>
          /\ AllOpaque(arg) => ret = <<255>>
          /\ SomeTransparent(arg) => ret = <<0>>
    /\ (op = "min_alpha_hit" /\ arg \in first_inside) =>
          (SomeTransparent(arg) => ret = <<0>>)

\* A first query of an opaque rectangle, after a query that found a
\* transparent pixel.
C7_Witness ==
    /\ op = "min_alpha_miss"
    /\ AllOpaque(arg)
    /\ \E r \in DOMAIN min_alpha_cache : min_alpha_cache[r] = 0

\* C8: an entry of the alpha cache is never removed or changed, and a query
\* of a rectangle that was answered before returns the first answer without
\* a scan of the raster.
C8_AlphaMemo ==
    [][/\ \A r \in DOMAIN min_alpha_cache :
             /\ r \in DOMAIN min_alpha_cache'
             /\ min_alpha_cache'[r] = min_alpha_cache[r]
       /\ (op' \in MinAlphaOps /\ arg' \in DOMAIN first_alpha) =>
             /\ ret' = <<first_alpha[arg']>>
             /\ scanned' = FALSE]_vars

\* A repeated query whose answer differs from what a scan of the raster
\* would find now.
C8_Witness ==
    /\ op = "min_alpha_hit"
    /\ RectInImage(image, arg)
    /\ ret # <<ScanMinAlpha(image, arg)>>

Isqrt(k) == CHOOSE s \in 0..k : s * s <= k /\ k < (s + 1) * (s + 1)

\* The origin of placement k in closed form
SpiralOrigin(k, uw, uh) ==
    LET s == Isqrt(k)
        p == k - s * s
    IN IF p < s THEN <<p * uw, s * uh>> ELSE <<s * uw, (p - s) * uh>>

\* C9: the k-th placement (k = 0, 1, ...) returns the origin of the spiral
\* for k, whatever the name and the content of the tile.
C9_SpiralOrigin ==
    op = "load_miss" =>
        ret = SpiralOrigin(placements - 1, unit_width, unit_height)

\* A placement on the right edge of a ring, below the first row.
C9_Witness ==
    /\ op = "load_miss"
    /\ ret[1] = completed_tiles_size * unit_width
    /\ ret[2] > 0
    /\ position > completed_tiles_size

\* C10: 0 <= position <= 2 * completed_tiles_size, and only a load that
\* places a tile changes the cursor.
C10_Cursor ==
    /\ [](0 <= position /\ position <= 2 * completed_tiles_size)
    /\ [][cursor' # cursor => op' = "load_miss"]_vars

\* The last slot of a ring is the next one, and the last call was none
\* that places a tile.
C10_Witness ==
    /\ completed_tiles_size >= 2
    /\ position = 2 * completed_tiles_size
    /\ op \in {"load_hit", "load_panic", "min_alpha_miss"}

\* The file of a name is missing or undecodable, too wide or too narrow, or
\* of a height that is no multiple of unit_height.
BadFile(name) ==
    LET r == load_rgba8(name, unit_width, unit_height)
    IN \/ ~r.ok
       \/ r.img.width # unit_width
       \/ r.img.height % unit_height # 0

\* C11: a load of a name that is not cached and whose file is missing, of
\* the wrong width or of a height that is no multiple of unit_height fails,
\* and leaves raster, cursor and both caches as they were, with no entry for
\* the name.
C11_FailedLoad ==
    [][(op' \in LoadOps /\ arg'[1] \notin DOMAIN tile_positions
          /\ BadFile(arg'[1])) =>
          /\ op' = "load_panic"
          /\ ret' = << >>
          /\ UNCHANGED builder
          /\ arg'[1] \notin DOMAIN tile_positions']_vars

\* A file of three rows for tiles of two fails to load when the next
\* placement would grow the raster, with a value in the alpha cache.
C11_Witness ==
    /\ op = "load_panic"
    /\ arg = <<-2>>
    /\ unit_height = 2
    /\ placements = InitTiles * InitTiles
    /\ DOMAIN min_alpha_cache # {}

\* The inputs of the last get, clamped to [0, GridDen]
ClampedX == IF arg[1] < 0 THEN 0 ELSE IF arg[1] > GridDen THEN GridDen
            ELSE arg[1]
ClampedY == IF arg[2] < 0 THEN 0 ELSE IF arg[2] > GridDen THEN GridDen
            ELSE arg[2]

\* (1 - x) * 255 and (1 - x * y) * 255 of the last get, as numerators over
\* GridDen and GridDen * GridDen
ScaledX == (GridDen - ClampedX) * 255
ScaledY == (GridDen * GridDen - ClampedX * ClampedY) * 255

\* The last get read a pixel of the raster, the corner (255, 255) for
\* get(0, 0) and the corner (0, 0) for get(1, 1), and returned its colour.
GetReadsPixel ==
    /\ ret[1] \in 0..255 /\ ret[2] \in 0..255
    /\ ret = <<ret[1], ret[2], ColorMapPixel(ret[1], ret[2])[3]>>
    /\ arg = <<0, 0>> => (ret[1] = 255 /\ ret[2] = 255)
    /\ arg = <<GridDen, GridDen>> => (ret[1] = 0 /\ ret[2] = 0)

\* C12 as stated: get reads the pixel at px = round((1 - x) * 255),
\* py = round((1 - x * y) * 255) of the clamped inputs.
C12_Original ==
    op = "get" =>
        /\ GetReadsPixel
        /\ 2 * ret[1] * GridDen - GridDen <= 2 * ScaledX
        /\ 2 * ScaledX < 2 * ret[1] * GridDen + GridDen
        /\ 2 * ret[2] * GridDen * GridDen - GridDen * GridDen <= 2 * ScaledY
        /\ 2 * ScaledY < 2 * ret[2] * GridDen * GridDen + GridDen * GridDen

\* C12: get reads the pixel at px = floor((1 - x) * 255),
\* py = floor((1 - x * y) * 255) of the clamped inputs: the coordinates are
\* truncated, not rounded.
C12_Amended ==
    op = "get" =>
        /\ GetReadsPixel
        /\ ret[1] * GridDen <= ScaledX
        /\ ScaledX < (ret[1] + 1) * GridDen
        /\ ret[2] * GridDen * GridDen <= ScaledY
        /\ ScaledY < (ret[2] + 1) * GridDen * GridDen

\* A get whose x is clamped from above and whose coordinates both have a
\* fractional part of at least one half.
C12_Witness ==
    /\ op = "get"
    /\ arg[1] > GridDen
    /\ 2 * (ScaledY % (GridDen * GridDen)) >= GridDen * GridDen
    /\ ret[2] > 0

\* C13: from_path succeeds exactly for a decodable file of 256 x 256
\* pixels, returns Img for a file that cannot be decoded, whatever its
\* size, and Size with the width and height found for a decodable file of
\* another size.
C13_FromPath ==
    op = "from_path" =>
        LET f == arg[1]
        IN /\ ret = <<"Ok">> <=> (f[1] /\ f[2] = 256 /\ f[3] = 256)
           /\ ~f[1] => ret = <<"Img">>
           /\ (f[1] /\ ~(f[2] = 256 /\ f[3] = 256)) =>
                 ret = <<"Size", f[2], f[3]>>
           /\ color_map = ret

\* A decodable file of the right width and the wrong height.
C13_Witness ==
    /\ op = "from_path"
    /\ ret = <<"Size", 256, 257>>

\* The growth condition of load in the current state
GrowthDue ==
    /\ position = 0
    /\ \/ unit_width * completed_tiles_size >= image.width
       \/ unit_height * completed_tiles_size >= image.height

\* The number of doublings after n placements into a raster that started
\* with side x side tiles: one for each of the rings side, 2 * side, ...
\* that a placement was made into.
RECURSIVE Doublings(_, _)
Doublings(n, side) ==
    IF n <= side * side THEN 0 ELSE 1 + Doublings(n, 2 * side)

\* C14: the size of the raster changes exactly in a load that places a tile
\* when position = 0 and unit_width * completed_tiles_size >= width or
\* unit_height * completed_tiles_size >= height, and then doubles in both
\* axes; get_size returns that size; the raster is doubled for the first
\* time by the 17th placement, then by the 65th and the 257th.
C14_SizeChanges ==
    /\ [][/\ dimensions(image') # dimensions(image) <=>
                (op' = "load_miss" /\ GrowthDue)
          /\ dimensions(image') # dimensions(image) =>
                dimensions(image') = <<2 * image.width, 2 * image.height>>
          /\ op' = "get_size" => ret' = <<image.width, image.height>>]_vars
    /\ [](LET k == Doublings(placements, InitTiles)
          IN /\ image.width = (2 ^ k) * InitTiles * unit_width
             /\ image.height = (2 ^ k) * InitTiles * unit_height)

\* get_size after the third doubling, made by the 257th placement.
C14_Witness ==
    /\ op = "get_size"
    /\ placements = 16 * InitTiles * InitTiles + 1
    /\ ret = <<8 * InitTiles * unit_width, 8 * InitTiles * unit_height>>

\* The grid cells at which a tile is cached
OccupiedCells ==
    {<<tile_positions[n][1] \div unit_width,
       tile_positions[n][2] \div unit_height>> : n \in DOMAIN tile_positions}

\* The full s x s square and the first p cells of ring s:
\* (0, s), ..., (s - 1, s), (s, 0), ..., (s, s)
SquareAndRing(s, p) ==
    ((0..(s - 1)) \X (0..(s - 1)))
    \cup {<<i, s>> : i \in 0..((IF p < s THEN p ELSE s) - 1)}
    \cup {<<s, j>> : j \in 0..(p - s - 1)}

\* C15: with the cursor at (s, p) the cells that hold a tile are the
\* s x s square and the first p cells of ring s in placement order, each
\* the cell of one name, and the origins are multiples of the unit size.
C15_OccupiedSquare ==
    /\ OccupiedCells = SquareAndRing(completed_tiles_size, position)
    /\ Cardinality(DOMAIN tile_positions) =
          completed_tiles_size * completed_tiles_size + position
    /\ \A n \in DOMAIN tile_positions :
          /\ tile_positions[n][1] % unit_width = 0
          /\ tile_positions[n][2] % unit_height = 0

\* A ring whose top edge is full and whose right edge is filled in part.
C15_Witness ==
    /\ completed_tiles_size = 3
    /\ position = 5
    /\ <<3, 1>> \in OccupiedCells
    /\ <<3, 2>> \notin OccupiedCells

\* The alpha bytes of the raster at the pixels [x, x + w) x [y, y + h)
AlphasIn(x, y, w, h) ==
    {image.px[c][4] : c \in {d \in DOMAIN image.px :
                               /\ x <= d[1] /\ d[1] < x + w
                               /\ y <= d[2] /\ d[2] < y + h}}

\* C16: a first query of a rectangle inside the raster returns the least
\* alpha byte of the pixels of the rectangle, 0 if there are none, adds
\* this one entry to the alpha cache and changes nothing else.
C16_MinAlphaMiss ==
    [][(/\ op' \in MinAlphaOps
        /\ arg' \notin DOMAIN min_alpha_cache
        /\ arg'[1] + arg'[3] <= image.width
        /\ arg'[2] + arg'[4] <= image.height) =>
          LET alphas == AlphasIn(arg'[1], arg'[2], arg'[3], arg'[4])
          IN /\ op' = "min_alpha_miss"
             /\ alphas # {} => (ret'[1] \in alphas
                                /\ \A a \in alphas : ret'[1] <= a)
             /\ (arg'[3] = 0 \/ arg'[4] = 0) => ret' = <<0>>
             /\ alphas = {} => ret' = <<0>>
             /\ DOMAIN min_alpha_cache' = DOMAIN min_alpha_cache \cup {arg'}
             /\ min_alpha_cache'[arg'] = ret'[1]
             /\ \A r \in DOMAIN min_alpha_cache :
                   min_alpha_cache'[r] = min_alpha_cache[r]
             /\ UNCHANGED <<image, cursor, tile_positions>>]_vars

\* A first query that finds the translucent pixel of a tile, after one of
\* the empty rectangle.
C16_Witness ==
    /\ op = "min_alpha_miss"
    /\ ret = <<128>>
    /\ \E r \in DOMAIN min_alpha_cache :
          (r[3] = 0 \/ r[4] = 0) /\ min_alpha_cache[r] = 0

\* The file of a name holds two or more frames of unit_height rows.
TallFile(name) ==
    LET r == load_rgba8(name, unit_width, unit_height)
    IN /\ r.ok
       /\ r.img.width = unit_width
       /\ r.img.height % unit_height = 0
       /\ r.img.height >= 2 * unit_height

\* C17: the load of a tile of two or more frames places a tile as the load
\* of its first frame alone would: it takes one slot, returns the origin of
\* that slot, doubles the raster only if the growth condition holds, writes
\* the first unit_height rows of the file to the rectangle at the origin
\* and leaves every other pixel as it was.
C17_ExtraFrames ==
    [][(/\ op' \in LoadOps
        /\ arg'[1] \notin DOMAIN tile_positions
        /\ TallFile(arg'[1])) =>
          LET file == load_rgba8(arg'[1], unit_width, unit_height).img
          IN /\ op' = "load_miss"
             /\ placements' = placements + 1
             /\ completed_tiles_size' * completed_tiles_size' + position' =
                   completed_tiles_size * completed_tiles_size + position + 1
             /\ ret' = SpiralOrigin(placements, unit_width, unit_height)
             /\ tile_positions'[arg'[1]] = ret'
             /\ dimensions(image') =
                   IF GrowthDue THEN <<2 * image.width, 2 * image.height>>
                   ELSE dimensions(image)
             /\ \A c \in DOMAIN image'.px :
                   image'.px[c] =
                      IF /\ ret'[1] <= c[1] /\ c[1] < ret'[1] + unit_width
                         /\ ret'[2] <= c[2] /\ c[2] < ret'[2] + unit_height
                      THEN file.px[<<c[1] - ret'[1], c[2] - ret'[2]>>]
                      ELSE IF c \in DOMAIN image.px THEN image.px[c]
                      ELSE ZeroPixel]_vars

\* A tile of two frames placed on the right edge of a ring, above a free
\* cell of the raster.
C17_Witness ==
    /\ op = "load_miss"
    /\ Frames(arg[1]) = 2
    /\ ret[1] > 0
    /\ ret[2] + 2 * unit_height <= image.height
    /\ image.px[<<ret[1], ret[2] + unit_height>>] = ZeroPixel

\* The memoized value of every rectangle that lay inside the raster at its
\* first query is at most every alpha byte the rectangle holds now.
StaleBelow ==
    \A r \in DOMAIN min_alpha_cache \cap first_inside :
        /\ r[1] + r[3] <= image.width
        /\ r[2] + r[4] <= image.height
        /\ \A a \in AlphasIn(r[1], r[2], r[3], r[4]) : min_alpha_cache[r] <= a

\* A pixel of the raster changes only from the zero pixel of a new raster.
WrittenOnce ==
    image' # image =>
        \A c \in DOMAIN image.px :
            /\ c \in DOMAIN image'.px
            /\ image'.px[c] # image.px[c] => image.px[c] = ZeroPixel

\* C18: the memoized value of a rectangle that lay inside the raster at its
\* first query is never above the least alpha byte the rectangle holds in
\* the current raster, and a pixel only ever changes from the initial
\* transparent value to the value of a placed tile.
C18_StaleBelow == []StaleBelow /\ [][WrittenOnce]_vars

\* A repeated query returns 0 for a rectangle that an opaque tile has
\* covered since the first query.
C18_Witness ==
    /\ op = "min_alpha_hit"
    /\ arg \in first_inside
    /\ ret = <<0>>
    /\ AlphasIn(arg[1], arg[2], arg[3], arg[4]) = {255}

\* The operations that remain once every tile is loaded.
ReadOps == {"load_hit", "get_size"} \cup MinAlphaOps

\* C19 as stated: min_alpha, get_size and a load of a cached name change no
\* part of the builder: raster, cursor, tile-position cache, alpha cache.
C19_Original == [][op' \in ReadOps => UNCHANGED builder]_vars

\* C19: min_alpha, get_size and a load of a cached name change neither the
\* raster, the cursor nor the tile-position cache; get_size, a load of a
\* cached name and a query of a memoized rectangle leave the alpha cache
\* unchanged too, while a first query of a rectangle that returns adds the
\* entry of this rectangle to the alpha cache and keeps the other entries.
C19_Amended ==
    [][op' \in ReadOps =>
          /\ UNCHANGED <<image, completed_tiles_size, position,
                         tile_positions>>
          /\ op' \in {"load_hit", "get_size", "min_alpha_hit",
                      "min_alpha_panic"} => UNCHANGED min_alpha_cache
          /\ op' \in {"min_alpha_miss", "min_alpha_outside"} =>
                /\ arg' \notin DOMAIN min_alpha_cache
                /\ DOMAIN min_alpha_cache' =
                      DOMAIN min_alpha_cache \cup {arg'}
                /\ \A r \in DOMAIN min_alpha_cache :
                      min_alpha_cache'[r] = min_alpha_cache[r]]_vars

\* A first query of a rectangle of a builder that holds tiles and an
\* earlier entry of the alpha cache.
C19_Witness ==
    /\ op = "min_alpha_miss"
    /\ tile_positions # << >>
    /\ Cardinality(DOMAIN min_alpha_cache) >= 2
    /\ arg \in DOMAIN min_alpha_cache

\* The faces of a cube in the order of the enum.
FaceOrder == <<"Down", "Up", "North", "South", "West", "East">>

\* What the calls of next() on an iterator returned since new(): the six
\* faces in order, then None; the counter is the number of faces yielded.
YieldsFaces(i) ==
    /\ face_iter[i] <= 6
    /\ face_iter[i] = Min({Len(yielded[i]), 6})
    /\ \A k \in 1..Len(yielded[i]) :
          yielded[i][k] = IF k <= 6 THEN FaceOrder[k] ELSE "None"

\* A call of next() on an exhausted iterator returns None and leaves every
\* iterator as it was.
ExhaustedStays ==
    (op' = "face_next" /\ face_iter[arg'[1]] = 6) =>
        /\ ret' = <<"None">>
        /\ face_iter' = face_iter

\* C20: from new() on, the calls of next() yield Down, Up, North, South,
\* West, East in this order, each once, and None ever after; the counter
\* never exceeds 6 and a call on an exhausted iterator does not change it.
C20_FaceIterator ==
    /\ [](\A i \in Iterators : YieldsFaces(i))
    /\ [][ExhaustedStays]_vars

\* The second call of next() on an exhausted iterator.
C20_Witness ==
    /\ op = "face_next"
    /\ ret = <<"None">>
    /\ face_iter[arg[1]] = 6
    /\ Len(yielded[arg[1]]) = 8
    /\ SubSeq(yielded[arg[1]], 1, 6) = FaceOrder
====
